---- MODULE Spec2Model ----
(***************************************************************************)
(* Model of app.py, the Streamlit "AI Student Assistant".                  *)
(*                                                                         *)
(* Python strings are sequences of one-character strings, so that strip(), *)
(* split() and the substring test `in` are computed, not assumed.  JSON    *)
(* values are records with a single field naming their type.  Exceptions   *)
(* are class names; `except C` matches by the class hierarchy.             *)
(***************************************************************************)
EXTENDS Integers, Sequences, FiniteSets, TLC

\* ------------------------------------------------------------------ bounds

\* Longest generated_text, counted in pieces (a piece is one character or
\* one whole marker).
MaxPieces == 3

\* Most POSTs issued in one process (caps the cache and the call counter).
MaxPosts == 2

\* ----------------------------------------------------------------- strings

Whitespace == {" ", "\n", "\t"}

RECURSIVE LStrip(_)
\* str.strip(), leading half
LStrip(s) ==
    IF s # <<>> /\ Head(s) \in Whitespace THEN LStrip(Tail(s)) ELSE s

RECURSIVE RStrip(_)
\* str.strip(), trailing half
RStrip(s) ==
    IF s # <<>> /\ s[Len(s)] \in Whitespace
    THEN RStrip(SubSeq(s, 1, Len(s) - 1))
    ELSE s

\* str.strip() with no argument
Strip(s) == RStrip(LStrip(s))

\* sub occurs in s at position i
IsAt(sub, s, i) ==
    /\ i >= 1
    /\ i + Len(sub) - 1 <= Len(s)
    /\ SubSeq(s, i, i + Len(sub) - 1) = sub

\* `sub in s` for two str
Contains(sub, s) == \E i \in 1..Len(s) : IsAt(sub, s, i)

RECURSIVE Split(_, _)
\* str.split(sep): scans left to right, cutting at each occurrence found
Split(s, sep) ==
    IF ~Contains(sep, s) THEN <<s>>
    ELSE LET i == CHOOSE k \in 1..Len(s) :
                      /\ IsAt(sep, s, k)
                      /\ \A j \in 1..(k - 1) : ~IsAt(sep, s, j)
         IN  <<SubSeq(s, 1, i - 1)>>
                 \o Split(SubSeq(s, i + Len(sep), Len(s)), sep)

\* seq[1] of Python: the piece after the first separator, when there is one
SecondPiece(seq) == seq[IF Len(seq) >= 2 THEN 2 ELSE 1]

\* seq[-1]
Last(seq) == seq[Len(seq)]

\* "[/INST]"
Marker == <<"[", "/", "I", "N", "S", "T", "]">>

\* "generated_text"
GT == <<"g", "e", "n", "e", "r", "a", "t", "e", "d", "_", "t", "e", "x", "t">>

\* -------------------------------------------------------------- JSON values

JStr(s) == [str |-> s]
JNum(n) == [num |-> n]
JNull == [null |-> TRUE]
JList(l) == [list |-> l]
\* an object is its sequence of <<key, value>> members
JDict(members) == [dict |-> members]
\* a body that is not JSON at all
NotJson == [notjson |-> TRUE]

IsStr(v) == "str" \in DOMAIN v
IsList(v) == "list" \in DOMAIN v
IsDict(v) == "dict" \in DOMAIN v

\* the right operand of `in` must be a container
SupportsIn(v) == IsStr(v) \/ IsList(v) \/ IsDict(v)

\* `key in v` for a str key, v a container
PyIn(key, v) ==
    IF IsStr(v) THEN Contains(key, v.str)
    ELSE IF IsList(v) THEN \E i \in 1..Len(v.list) : v.list[i] = JStr(key)
    ELSE \E i \in 1..Len(v.dict) : v.dict[i][1] = key

\* d[key] for a dict d that has key (the last member of that name wins)
GetItem(d, key) ==
    LET i == CHOOSE k \in 1..Len(d.dict) :
                 /\ d.dict[k][1] = key
                 /\ \A j \in (k + 1)..Len(d.dict) : d.dict[j][1] # key
    IN  d.dict[i][2]

\* --------------------------------------------------------------- exceptions

\* The classes `cls` is an instance of, as requests.exceptions and the
\* builtins declare them.
Ancestors(cls) ==
    CASE cls = "HTTPError" ->
            {"HTTPError", "RequestException", "Exception"}
      [] cls = "ConnectionError" ->
            {"ConnectionError", "RequestException", "Exception"}
      [] cls = "SSLError" ->
            {"SSLError", "ConnectionError", "RequestException", "Exception"}
      [] cls = "ConnectTimeout" ->
            {"ConnectTimeout", "ConnectionError", "Timeout",
             "RequestException", "Exception"}
      [] cls = "ReadTimeout" ->
            {"ReadTimeout", "Timeout", "RequestException", "Exception"}
      [] cls = "ChunkedEncodingError" ->
            {"ChunkedEncodingError", "RequestException", "Exception"}
      [] cls = "JSONDecodeError" ->
            {"JSONDecodeError", "InvalidJSONError", "RequestException",
             "Exception"}
      [] OTHER -> {cls, "Exception"}

\* isinstance(e, target) for an exception of class cls
IsInstance(cls, target) == target \in Ancestors(cls)

\* What requests.post raises when the request gets no HTTP response.
TransportExceptions ==
    {"ConnectionError", "SSLError", "ConnectTimeout", "ReadTimeout",
     "ChunkedEncodingError"}

\* ------------------------------------------------------------ configuration

API_URL ==
    "https://api-inference.huggingface.co/models/mistralai/Mistral-7B-Instruct-v0.3"

\* default of the parameter model_name
model_name == "Mistral-7B-Instruct-v0.2"

\* ------------------------------------------------------------------ results

NoBody == [none |-> TRUE]

\* query_huggingface returns a str; the model keeps which return statement
\* produced it (kind, via) and the values formatted into it.
BlankResult ==
    [kind |-> "", via |-> "", status |-> 0, model |-> "", url |-> "",
     body |-> NoBody, text |-> <<>>, detail |-> ""]

\* lines 58 and 60
Text(t) == [BlankResult EXCEPT !.kind = "Text", !.via = "try", !.text = t]

\* line 62
UnexpectedFormat(result) ==
    [BlankResult EXCEPT !.kind = "Unknown", !.via = "shape_check",
                        !.body = result]

\* lines 67-73 without the branch for 503
HttpErrorMessageNo503(status_code, text) ==
    IF status_code = 404 THEN
        [BlankResult EXCEPT !.kind = "NotFound", !.via = "HTTPError",
                            !.status = 404, !.model = model_name,
                            !.url = API_URL]
    ELSE IF status_code = 401 THEN
        [BlankResult EXCEPT !.kind = "Unauthorized", !.via = "HTTPError",
                            !.status = 401]
    ELSE
        [BlankResult EXCEPT !.kind = "OtherHttp", !.via = "HTTPError",
                            !.status = status_code, !.body = text]

\* lines 67, 69, 71, 73
HttpErrorMessage(status_code, text) ==
    IF status_code = 404 THEN
        [BlankResult EXCEPT !.kind = "NotFound", !.via = "HTTPError",
                            !.status = 404, !.model = model_name,
                            !.url = API_URL]
    ELSE IF status_code = 401 THEN
        [BlankResult EXCEPT !.kind = "Unauthorized", !.via = "HTTPError",
                            !.status = 401]
    ELSE IF status_code = 503 THEN
        [BlankResult EXCEPT !.kind = "ServiceBusy", !.via = "HTTPError",
                            !.status = 503, !.model = model_name]
    ELSE
        [BlankResult EXCEPT !.kind = "OtherHttp", !.via = "HTTPError",
                            !.status = status_code, !.body = text]

\* line 75
ConnectionErrorMessage(e) ==
    [BlankResult EXCEPT !.kind = "ConnectionFailure",
                        !.via = "ConnectionError", !.detail = e]

\* line 77
UnexpectedErrorMessage(e) ==
    [BlankResult EXCEPT !.kind = "Unknown", !.via = "Exception",
                        !.detail = e]

\* ------------------------------------------------- query_huggingface, body

\* How a block of code ends: it returns a value or raises an exception.
Returns(v) == [raised |-> FALSE, exc |-> "", value |-> v]
Raises(cls) == [raised |-> TRUE, exc |-> cls, value |-> BlankResult]

\* What the endpoint does with one POST: requests.post raises, or returns a
\* response.
NoResponse == [status_code |-> 0, body |-> NoBody]
Failure(cls) == [raises |-> cls, response |-> NoResponse]
Response(status_code, body) ==
    [raises |-> "", response |-> [status_code |-> status_code, body |-> body]]

\* Response.raise_for_status raises for 4xx and 5xx
RaiseForStatus(status_code) == 400 <= status_code /\ status_code < 600

\* lines 57-60 with None read as the empty text (as `generated_text or ""`
\* would)
ExtractNoneAsEmpty(generated_text) ==
    IF generated_text = JNull THEN Returns(Text(<<>>))
    ELSE IF ~SupportsIn(generated_text) THEN Raises("TypeError")
    ELSE IF ~IsStr(generated_text) THEN Raises("AttributeError")
    ELSE IF PyIn(Marker, generated_text)
    THEN Returns(Text(Strip(Last(Split(generated_text.str, Marker)))))
    ELSE Returns(Text(Strip(generated_text.str)))

\* lines 57-60
Extract(generated_text) ==
    IF ~SupportsIn(generated_text) THEN Raises("TypeError")
    ELSE IF PyIn(Marker, generated_text) THEN
        IF IsStr(generated_text)
        THEN Returns(Text(Strip(Last(Split(generated_text.str, Marker)))))
        ELSE Raises("AttributeError")
    ELSE
        IF IsStr(generated_text)
        THEN Returns(Text(Strip(generated_text.str)))
        ELSE Raises("AttributeError")

\* lines 51-62, on the value response.json() returned
ParseResult(result) ==
    IF ~(IsList(result) /\ Len(result.list) > 0)
    THEN Returns(UnexpectedFormat(result))
    ELSE LET first == result.list[1] IN
        IF ~SupportsIn(first) THEN Raises("TypeError")
        ELSE IF ~PyIn(GT, first) THEN Returns(UnexpectedFormat(result))
        ELSE IF ~IsDict(first) THEN Raises("TypeError")
        ELSE Extract(GetItem(first, GT))

\* lines 48-62: the try block after the payload is built
TryBlock(outcome) ==
    IF outcome.raises # "" THEN Raises(outcome.raises)
    ELSE IF RaiseForStatus(outcome.response.status_code)
         THEN Raises("HTTPError")
    ELSE IF outcome.response.body = NotJson THEN Raises("JSONDecodeError")
    ELSE ParseResult(outcome.response.body)

\* lines 74-75: does the second except clause take the exception
CaughtAsConnectionError(cls) == IsInstance(cls, "ConnectionError")

\* a last clause `except requests.exceptions.RequestException`
CaughtAsRequestException(cls) == IsInstance(cls, "RequestException")

\* lines 76-77: does the last except clause take the exception
CaughtAsException(cls) == IsInstance(cls, "Exception")

\* lines 35-77: the uncached function on one endpoint outcome.  `escaped` is
\* the class of an exception no except clause took ("" when it returned).
Call(outcome) ==
    LET t == TryBlock(outcome) IN
    IF ~t.raised THEN [escaped |-> "", value |-> t.value]
    ELSE IF IsInstance(t.exc, "HTTPError") THEN
        [escaped |-> "",
         value |-> HttpErrorMessage(outcome.response.status_code,
                                    outcome.response.body)]
    ELSE IF CaughtAsConnectionError(t.exc) THEN
        [escaped |-> "", value |-> ConnectionErrorMessage(t.exc)]
    ELSE IF CaughtAsException(t.exc) THEN
        [escaped |-> "", value |-> UnexpectedErrorMessage(t.exc)]
    ELSE [escaped |-> t.exc, value |-> BlankResult]

\* ------------------------------------------------------------------ prompts

\* The four labels of the selectbox (their leading emoji left out).
Summarize == "Summarize Text"
Explain == "Explain Concept"
ModelQuestions == "Generate Model Questions"
QuizQuestions == "Generate Quiz Questions"

Options == {Summarize, Explain, ModelQuestions, QuizQuestions}

\* A prompt is its sequence of lines.  A line is template text, with the
\* user's input embedded verbatim where the f-string has {user_input}.
Lit(s) == [pre |-> s, embed |-> FALSE, arg |-> <<>>, post |-> ""]
Emb(pre, user_input, post) ==
    [pre |-> pre, embed |-> TRUE, arg |-> user_input, post |-> post]

\* line 104
SummarizePrompt(user_input) ==
    << Lit("Summarize the following text concisely and accurately, highlighting the main points:"),
       Lit(""),
       Emb("", user_input, "") >>

\* line 106
ExplainPrompt(user_input) ==
    << Lit("Explain the following concept in simple, easy-to-understand terms for a student:"),
       Lit(""),
       Emb("Concept: ", user_input, "") >>

\* line 108
ModelQuestionsPrompt(user_input) ==
    << Emb("Generate 5 detailed model exam/essay questions for the topic '",
           user_input,
           "'. Ensure the questions are open-ended and require analytical answers. Format them as a numbered list.") >>

\* line 110
QuizDemand(user_input) ==
    Emb("Create 3 multiple-choice questions (MCQs) with 4 options each, and 2 true/false questions on the topic '",
        user_input, "'.")

\* lines 111-124
QuizLayout ==
    << Lit("                For MCQs, clearly indicate the correct option (A, B, C, or D)."),
       Lit("                For True/False questions, clearly state 'True' or 'False'."),
       Lit(""),
       Lit("                Format your output strictly as follows:"),
       Lit("                1. MCQ Question 1"),
       Lit("                   a) Option A"),
       Lit("                   b) Option B"),
       Lit("                   c) Option C"),
       Lit("                   d) Option D"),
       Lit("                   Correct Answer: [Option Letter, e.g., C]"),
       Lit(""),
       Lit("                2. True/False Question 1"),
       Lit("                   Answer: [True/False]"),
       Lit("                ") >>

\* lines 110-121: the template cut after the MCQ block
QuizPromptWithoutTrueFalse(user_input) ==
    <<QuizDemand(user_input)>> \o SubSeq(QuizLayout, 1, 11)

\* lines 110-124
QuizPrompt(user_input) == <<QuizDemand(user_input)>> \o QuizLayout

\* lines 101-124
BuildPrompt(option, user_input) ==
    IF option = Summarize THEN SummarizePrompt(user_input)
    ELSE IF option = Explain THEN ExplainPrompt(user_input)
    ELSE IF option = ModelQuestions THEN ModelQuestionsPrompt(user_input)
    ELSE IF option = QuizQuestions THEN QuizPrompt(user_input)
    ELSE <<>>

\* ------------------------------------------------------------ the script

\* What os.getenv("HF_API_KEY") gives once load_dotenv has run.
None == "None"
KeyValues == {None, "", "hf_token"}

\* `HF_API_KEY is None` in place of line 12
KeyIsNone(key) == key = None

\* line 12: not HF_API_KEY
KeyMissing(key) == key = None \/ key = ""

\* `user_input == ""` in place of line 96
IsEmpty(user_input) == user_input = <<>>

\* line 96: user_input.strip() == ""
IsBlank(user_input) == Strip(user_input) = <<>>

\* a cache that keeps generated text only
CacheableTextOnly(value) == value.kind = "Text"

\* line 22: st.cache_data stores whatever the function returns
Cacheable(value) == TRUE

\* a POST repeated once when the answer is 503
PostsWithRetry(o) == IF o.response.status_code = 503 THEN 2 ELSE 1

\* line 48: the POST statement runs once on the way through the function
PostsIssued(outcome) == 1

VARIABLES
    environ,        \* HF_API_KEY as the process environment has it
    HF_API_KEY,     \* the script's global, set by each run
    stopped,        \* the last run ended in st.stop()
    cache,          \* st.cache_data of query_huggingface: prompt -> value
    networkCalls,   \* POSTs issued since the process started
    firstResult,    \* history: what the first invocation with a prompt gave
    ev,             \* what the last run of the script did
    outcome,        \* the endpoint outcome handed to the function, called alone
    ret             \* what the function, called alone, did with it

vars ==
    <<environ, HF_API_KEY, stopped, cache, networkCalls, firstResult, ev,
      outcome, ret>>

NoOutcome == [raises |-> "", response |-> NoResponse]
NotCalled == [called |-> FALSE, escaped |-> "", value |-> BlankResult]

\* A run that did nothing yet.
BlankEvent ==
    [pressed |-> FALSE, option |-> "", user_input |-> <<>>, prompt |-> <<>>,
     builds |-> 0, lookups |-> 0, inserts |-> 0, posts |-> 0, results |-> 0,
     shown |-> "none", result |-> BlankResult]

\* What the user may have typed into the text area.
UserInputs == { <<>>, <<" ", "\n", "\t">>, <<" ", "a", " ">> }

\* What the endpoint may do with a POST of the running application.
AppOutcomes ==
    { Failure("ConnectionError"),
      Failure("ReadTimeout"),
      Response(200, JList(<< JDict(<< <<GT, JStr(<<"a">> \o Marker \o <<" ", "b">>)>> >>) >>)),
      Response(200, JList(<< JDict(<< <<GT, JNum(5)>> >>) >>)),
      Response(503, NotJson),
      Response(500, NotJson) }

Init ==
    /\ environ \in KeyValues
    /\ HF_API_KEY = None
    /\ stopped = FALSE
    /\ cache = <<>>
    /\ networkCalls = 0
    /\ firstResult = <<>>
    /\ ev = BlankEvent
    /\ outcome = NoOutcome
    /\ ret = NotCalled

\* lines 8-14: no key, the script reports it and stops
RunWithoutKey ==
    /\ KeyMissing(environ)
    /\ HF_API_KEY' = environ
    /\ stopped' = TRUE
    /\ ev' = [BlankEvent EXCEPT !.shown = "error"]
    /\ UNCHANGED <<environ, cache, networkCalls, firstResult, outcome, ret>>

\* lines 8-95 and 130-131: a run in which the button was not pressed
RunIdle(option, user_input) ==
    /\ ~KeyMissing(environ)
    /\ HF_API_KEY' = environ
    /\ stopped' = FALSE
    /\ ev' = BlankEvent
    /\ UNCHANGED <<environ, cache, networkCalls, firstResult, outcome, ret>>

\* lines 95-97: the button pressed on blank input
RunBlank(option, user_input) ==
    /\ ~KeyMissing(environ)
    /\ IsBlank(user_input)
    /\ HF_API_KEY' = environ
    /\ stopped' = FALSE
    /\ ev' = [BlankEvent EXCEPT !.pressed = TRUE, !.option = option,
                                !.user_input = user_input,
                                !.shown = "warning"]
    /\ UNCHANGED <<environ, cache, networkCalls, firstResult, outcome, ret>>

\* lines 95-128, query_huggingface answering from its cache
RunHit(option, user_input) ==
    LET prompt == BuildPrompt(option, user_input) IN
    /\ ~KeyMissing(environ)
    /\ ~IsBlank(user_input)
    /\ prompt \in DOMAIN cache
    /\ HF_API_KEY' = environ
    /\ stopped' = FALSE
    /\ ev' = [BlankEvent EXCEPT !.pressed = TRUE, !.option = option,
                                !.user_input = user_input,
                                !.prompt = prompt, !.builds = 1,
                                !.lookups = 1, !.results = 1,
                                !.shown = "result",
                                !.result = cache[prompt]]
    /\ UNCHANGED <<environ, cache, networkCalls, firstResult, outcome, ret>>

\* lines 95-128, query_huggingface running its body
RunMiss(option, user_input, o) ==
    LET prompt == BuildPrompt(option, user_input)
        r == Call(o)
    IN
    /\ ~KeyMissing(environ)
    /\ ~IsBlank(user_input)
    /\ prompt \notin DOMAIN cache
    /\ networkCalls < MaxPosts
    /\ HF_API_KEY' = environ
    /\ stopped' = FALSE
    /\ networkCalls' = networkCalls + PostsIssued(o)
    /\ IF r.escaped = "" /\ Cacheable(r.value)
       THEN cache' = (prompt :> r.value) @@ cache
       ELSE cache' = cache
    /\ firstResult' =
          IF r.escaped = "" /\ prompt \notin DOMAIN firstResult
          THEN (prompt :> r.value) @@ firstResult
          ELSE firstResult
    /\ ev' = [BlankEvent EXCEPT
                !.pressed = TRUE, !.option = option,
                !.user_input = user_input, !.prompt = prompt,
                !.builds = 1, !.lookups = 1,
                !.inserts = IF r.escaped = "" /\ Cacheable(r.value)
                            THEN 1 ELSE 0,
                !.posts = PostsIssued(o),
                !.results = IF r.escaped = "" THEN 1 ELSE 0,
                !.shown = IF r.escaped = "" THEN "result" ELSE "exception",
                !.result = r.value]
    /\ UNCHANGED <<environ, outcome, ret>>

Next ==
    \/ RunWithoutKey
    \/ \E option \in Options, user_input \in UserInputs :
          \/ RunIdle(option, user_input)
          \/ RunBlank(option, user_input)
          \/ RunHit(option, user_input)
          \/ \E o \in AppOutcomes : RunMiss(option, user_input, o)

Spec == Init /\ [][Next]_vars

\* ------------------------------------------- the function called on its own

Pieces == { <<"a">>, <<" ">>, <<"\n">>, <<"[">>, Marker }

RECURSIVE TextsOf(_)
\* every concatenation of at most n pieces
TextsOf(n) ==
    IF n = 0 THEN { <<>> }
    ELSE LET shorter == TextsOf(n - 1)
         IN  shorter \cup { t \o p : t \in shorter, p \in Pieces }

Texts == TextsOf(MaxPieces)

\* {"generated_text": v}
Record(v) == JDict(<< <<GT, v>> >>)

\* Bodies of the expected shape: one record, or two records.
SampleTexts == { <<"a">>, <<"b">> \o Marker \o <<"c">>, <<" ">> }
ValidBodies ==
    { JList(<<Record(JStr(t))>>) : t \in Texts }
        \cup { JList(<<Record(JStr(t)), Record(JStr(u))>>) :
                  t \in SampleTexts, u \in SampleTexts }

\* Bodies of a 2xx response that are not of the expected shape.
MalformedBodies ==
    { NotJson,
      JDict(<< << <<"e">>, JStr(<<"a">>) >> >>),
      JStr(GT),
      JNum(5),
      JNull,
      JList(<<>>),
      JList(<<JNum(5)>>),
      JList(<<JNull>>),
      JList(<<JStr(<<"a">>)>>),
      JList(<<JStr(GT)>>),
      JList(<<JList(<<>>)>>),
      JList(<<JList(<<JStr(GT)>>)>>),
      JList(<<JDict(<<>>)>>),
      JList(<<JDict(<< << <<"e">>, JStr(<<"a">>) >> >>)>>),
      JList(<<Record(JNum(5))>>),
      JList(<<Record(JNull)>>),
      JList(<<Record(JList(<<>>))>>),
      JList(<<Record(JList(<<JStr(Marker)>>))>>),
      JList(<<Record(JDict(<<>>))>>),
      JList(<<Record(JDict(<< <<Marker, JNum(5)>> >>))>>) }

SuccessStatuses == {200, 201}
ErrorStatuses == {400, 401, 403, 404, 429, 500, 502, 503, 599}
ErrorBodies == { NotJson, JStr(<<"a">>), JList(<<Record(JStr(<<"a">>))>>) }

\* Exceptions of the call that are not transport failures.
OtherExceptions == {"InvalidHeader", "TooManyRedirects", "MemoryError"}

AllOutcomes ==
    { Failure(c) : c \in TransportExceptions \cup OtherExceptions }
        \cup { Response(s, b) :
                  s \in SuccessStatuses, b \in ValidBodies \cup MalformedBodies }
        \cup { Response(s, b) : s \in ErrorStatuses, b \in ErrorBodies }

InitCall ==
    /\ environ = "hf_token"
    /\ HF_API_KEY = "hf_token"
    /\ stopped = FALSE
    /\ cache = <<>>
    /\ networkCalls = 0
    /\ firstResult = <<>>
    /\ ev = BlankEvent
    /\ outcome \in AllOutcomes
    /\ ret = NotCalled

\* lines 35-77, run once on the outcome drawn
CallOnce ==
    /\ ~ret.called
    /\ ret' = [called |-> TRUE, escaped |-> Call(outcome).escaped,
               value |-> Call(outcome).value]
    /\ UNCHANGED <<environ, HF_API_KEY, stopped, cache, networkCalls,
                   firstResult, ev, outcome>>

NextCall == CallOnce

SpecCall == InitCall /\ [][NextCall]_vars

\* ------------------------------------------------------------------- claims

\* every character of s is whitespace (the empty string included)
AllWhitespace(s) == \A i \in 1..Len(s) : s[i] \in Whitespace

\* s without its leading and trailing whitespace, by position
Trimmed(s) ==
    IF AllWhitespace(s) THEN <<>>
    ELSE LET solid == { i \in 1..Len(s) : s[i] \notin Whitespace }
             lo == CHOOSE i \in solid : \A j \in solid : i <= j
             hi == CHOOSE i \in solid : \A j \in solid : j <= i
         IN  SubSeq(s, lo, hi)

\* what follows the last occurrence of the marker in s, which has one
AfterLastMarker(s) ==
    LET at == { i \in 1..Len(s) : IsAt(Marker, s, i) }
        last == CHOOSE i \in at : \A j \in at : j <= i
    IN  SubSeq(s, last + Len(Marker), Len(s))

\* the last run pressed the button on input that is not blank
Invoked == ev.pressed /\ ~AllWhitespace(ev.user_input)

\* C1: a step that invokes query_huggingface with a prompt never invoked
\* before issues exactly one POST; a step that invokes it with a prompt invoked
\* before issues none and shows the value the first invocation returned, text
\* or error; so the POSTs issued number the distinct prompts invoked.
C1_OnePostPerDistinctPrompt ==
    /\ [](networkCalls = Cardinality(DOMAIN firstResult))
    /\ [][ (ev'.pressed /\ ~AllWhitespace(ev'.user_input)) =>
              IF ev'.prompt \in DOMAIN firstResult
              THEN /\ networkCalls' = networkCalls
                   /\ ev'.posts = 0
                   /\ ev'.shown = "result"
                   /\ ev'.result = firstResult[ev'.prompt]
              ELSE /\ networkCalls' = networkCalls + 1
                   /\ ev'.posts = 1 ]_vars

\* C1 witness: a cached 503 error is shown again without a POST, after two
\* distinct prompts were invoked.
C1_Witness ==
    /\ Invoked
    /\ ev.posts = 0
    /\ ev.result.kind = "ServiceBusy"
    /\ networkCalls = 2
    /\ Cardinality(DOMAIN cache) = 2

\* C2: the button pressed on input that is empty or all whitespace gives the
\* warning and nothing else: no prompt is built, the cache is neither read nor
\* written, no POST is issued and no result is shown, whatever the mode.
C2_BlankInputStopsAtValidation ==
    (ev.pressed /\ AllWhitespace(ev.user_input)) =>
        /\ ev.shown = "warning"
        /\ ev.builds = 0
        /\ ev.lookups = 0
        /\ ev.inserts = 0
        /\ ev.posts = 0
        /\ ev.results = 0

\* C2 witness: whitespace-only input in quiz mode, warned about, in a process
\* that has already served a request.
C2_Witness ==
    /\ ev.pressed
    /\ ev.user_input = <<" ", "\n", "\t">>
    /\ ev.option = QuizQuestions
    /\ ev.shown = "warning"
    /\ networkCalls > 0

ResultKinds ==
    {"Text", "NotFound", "Unauthorized", "ServiceBusy", "OtherHttp",
     "ConnectionFailure", "Unknown"}

\* C3: whatever the endpoint does, query_huggingface returns a value, a text
\* or an error message; no exception leaves it.
C3_EveryOutcomeReturnsAResult ==
    ret.called => /\ ret.escaped = ""
                  /\ ret.value.kind \in ResultKinds

\* C3 witness: a 2xx body whose first element is a number raises TypeError
\* inside the try block, and the function still returns an error message.
C3_Witness ==
    /\ ret.called
    /\ outcome = Response(200, JList(<<JNum(5)>>))
    /\ ret.escaped = ""
    /\ ret.value.kind = "Unknown"
    /\ ret.value.detail = "TypeError"

\* the descriptor the mapping gives an HTTP error status
DescriptorOf(status_code) ==
    CASE status_code = 404 -> "NotFound"
      [] status_code = 401 -> "Unauthorized"
      [] status_code = 503 -> "ServiceBusy"
      [] OTHER -> "OtherHttp"

WellShaped(body) ==
    /\ IsList(body)
    /\ Len(body.list) > 0
    /\ IsDict(body.list[1])
    /\ \E i \in 1..Len(body.list[1].dict) : body.list[1].dict[i][1] = GT
    /\ IsStr(GetItem(body.list[1], GT))

\* C5: on a 2xx body of the expected shape the result is the first record's
\* generated_text, cut to what follows the last marker when it has a marker,
\* whole otherwise, and trimmed of leading and trailing whitespace either way.
C5_ParserExtraction ==
    (ret.called /\ outcome.raises = ""
        /\ outcome.response.status_code \in SuccessStatuses
        /\ WellShaped(outcome.response.body)) =>
        LET t == GetItem(outcome.response.body.list[1], GT).str
        IN  /\ ret.escaped = ""
            /\ ret.value.kind = "Text"
            /\ ret.value.text =
                  IF \E i \in 1..Len(t) : IsAt(Marker, t, i)
                  THEN Trimmed(AfterLastMarker(t))
                  ELSE Trimmed(t)

\* C5 witness: two markers, the answer after the second one.
C5_Witness ==
    /\ ret.called
    /\ outcome =
          Response(200, JList(<<Record(JStr(Marker \o Marker \o <<"a">>))>>))
    /\ ret.value.text = <<"a">>

\* the lines of an MCQ block: four options and the correct answer
McqBlockLines ==
    << Lit("                   a) Option A"),
       Lit("                   b) Option B"),
       Lit("                   c) Option C"),
       Lit("                   d) Option D"),
       Lit("                   Correct Answer: [Option Letter, e.g., C]") >>

\* the answer line of a true/false block
TrueFalseAnswerLine == Lit("                   Answer: [True/False]")

\* how many MCQ blocks the prompt holds
McqBlocks(prompt) ==
    Cardinality({ i \in 1..Len(prompt) :
        /\ i + 4 <= Len(prompt)
        /\ SubSeq(prompt, i, i + 4) = McqBlockLines })

\* how many true/false blocks the prompt holds
TrueFalseBlocks(prompt) ==
    Cardinality({ i \in 1..Len(prompt) : prompt[i] = TrueFalseAnswerLine })

QuizBuilt == Invoked /\ ev.builds = 1 /\ ev.option = QuizQuestions

\* C6 as stated: the quiz template holds exactly 3 MCQ blocks and exactly 2
\* true/false blocks.
C6_ThreeMcqTwoTrueFalseBlocks ==
    QuizBuilt => /\ McqBlocks(ev.prompt) = 3
                 /\ TrueFalseBlocks(ev.prompt) = 2

\* C6 amended: the quiz template asks for 3 MCQs of 4 options and 2 true/false
\* questions in its first sentence, around the input embedded verbatim, and
\* its layout shows exactly 1 MCQ block (options a to d and a "Correct
\* Answer:" line) and exactly 1 true/false block (an "Answer:" line).
C6_OneBlockOfEachKind ==
    QuizBuilt =>
        /\ ev.prompt[1].pre =
              "Create 3 multiple-choice questions (MCQs) with 4 options each, and 2 true/false questions on the topic '"
        /\ ev.prompt[1].embed
        /\ ev.prompt[1].arg = ev.user_input
        /\ McqBlocks(ev.prompt) = 1
        /\ TrueFalseBlocks(ev.prompt) = 1

\* C6 witness: a quiz prompt was built and sent.
C6_Witness == QuizBuilt /\ ev.posts = 1 /\ Len(ev.prompt) = 15

\* C7: with no credential in the environment (unset or empty) nothing is ever
\* accepted: no button press is handled, no prompt built, the cache stays
\* empty and untouched and no POST is issued.
C7_NoCredentialNoRequest ==
    (environ = None \/ environ = "") =>
        /\ ~ev.pressed
        /\ ev.builds = 0
        /\ ev.lookups = 0
        /\ ev.inserts = 0
        /\ ev.posts = 0
        /\ cache = <<>>
        /\ networkCalls = 0

\* C7 witness: the script ran with an empty credential and stopped.
C7_Witness == environ = "" /\ stopped /\ ev.shown = "error"

\* C8 as stated: every transport failure of the POST is classified as
\* ConnectionFailure, with the failure's detail.
C8_TransportFailureIsConnectionFailure ==
    (ret.called /\ outcome.raises \in TransportExceptions) =>
        /\ ret.value.kind = "ConnectionFailure"
        /\ ret.value.detail = outcome.raises

\* a 2xx response whose body is not of the expected shape
Malformed == 
    /\ outcome.raises = ""
    /\ outcome.response.status_code \in SuccessStatuses
    /\ ~WellShaped(outcome.response.body)

\* C9 as stated: a malformed 2xx body that is JSON is turned into an Unknown
\* error by the shape check, before any of its fields is used, so that nothing
\* is raised on the way.
C9_ShapeCheckedBeforeAccess ==
    (ret.called /\ Malformed /\ outcome.response.body # NotJson) =>
        /\ ret.value.kind = "Unknown"
        /\ ret.value.via = "shape_check"

\* C9 amended: a malformed 2xx body always gives an Unknown error, never a
\* text, and no exception leaves the function; the error comes from the shape
\* check or, when using the body raised an exception, from the last except
\* clause.
C9_MalformedBodyIsUnknown ==
    (ret.called /\ Malformed) =>
        /\ ret.escaped = ""
        /\ ret.value.kind = "Unknown"
        /\ ret.value.via \in {"shape_check", "Exception"}
        /\ ret.value.via = "Exception" =>
              ret.value.detail \in
                  {"JSONDecodeError", "TypeError", "AttributeError"}

\* C9 witness: generated_text is null.
C9_Witness ==
    /\ ret.called
    /\ outcome = Response(200, JList(<<Record(JNull)>>))
    /\ ret.value.kind = "Unknown"
    /\ ret.value.via = "Exception"

\* C10: one press of the button on valid input builds one prompt, issues at
\* most one POST and shows one result, whatever the endpoint answers.
C10_OneFlowPerEvent ==
    Invoked => /\ ev.builds = 1
               /\ ev.posts <= 1
               /\ ev.results = 1

\* C10 witness: a 503 was answered, after a single POST.
C10_Witness ==
    /\ Invoked
    /\ ev.posts = 1
    /\ ev.results = 1
    /\ ev.result.kind = "ServiceBusy"

====
